---- MODULE Spec2Model ----
(***************************************************************************)
(* coreconsole: the CoreCLR console host                                   *)
(* (src/src/coreclr/hosts/coreconsole/coreconsole.cpp).                    *)
(*                                                                         *)
(* wmain parses the leading options, TryRun constructs a HostEnvironment   *)
(* (which locates and pins CoreCLR.dll), loads the managed module, drives  *)
(* the ICLRRuntimeHost2 calls in sequence and returns the exit code.       *)
(* GetTpaList scans CORE_LIBRARIES and the CoreCLR directory to build the  *)
(* TPA list.                                                               *)
(*                                                                         *)
(* Strings are sequences of one-character strings.  Results of operating   *)
(* system and runtime-host calls are inputs, drawn by the actions.         *)
(***************************************************************************)
EXTENDS Integers, Sequences, FiniteSets, TLC

\* ------------------------------------------------------------------------
\* Bounds of the model
\* ------------------------------------------------------------------------

\* Largest number of entries a scanned directory holds.
MaxFiles == 3

\* Largest number of command-line tokens after argv[0].
MaxArgs == 2

\* Largest length of a file name handed to RemoveExtensionAndNi.
MaxNameLen == 6

\* Largest number of Append calls on a StringBuffer taken alone.
MaxAppends == 17

\* Largest number of those calls whose string is shorter than MAX_PATH.
MaxShort == 1

\* ------------------------------------------------------------------------
\* Values
\* ------------------------------------------------------------------------

NULL == "NULL"

\* A character array that was declared and never written.
UninitializedPath == <<"uninitialized">>

\* A null character pointer.
NullString == <<"nullptr">>

\* The number of values of one 16-bit half of a DWORD.  A DWORD has 32 bits
\* and is in 0 .. WordRange * WordRange - 1; the model checker's integers
\* end at 2^31 - 1, so a DWORD is held as its two halves: <<hi, lo>> is the
\* DWORD hi * WordRange + lo.  An int is in -2^31 .. 2^31 - 1 and is held
\* as an integer.
WordRange == 65536

\* The DWORD of the halves hi and lo.
Dword(hi, lo) == <<hi, lo>>

\* The DWORD an int converts to: the int modulo 2^32.
ToDword(n) == Dword((n \div WordRange) % WordRange, n % WordRange)

\* exitCode = -1: the DWORD that -1 converts to, 4294967295.
Sentinel == ToDword(-1)

\* A DWORD or int variable that holds no value yet (no half is WordRange).
NoValue == <<WordRange, WordRange>>

\* return exitCode: the DWORD converted to the int wmain returns, the
\* DWORDs from 2^31 on being the negative ints.
ToInt32(d) ==
    IF d[1] >= WordRange \div 2
    THEN (d[1] - WordRange) * WordRange + d[2]
    ELSE d[1] * WordRange + d[2]

\* ------------------------------------------------------------------------
\* Strings
\* ------------------------------------------------------------------------

UpperCase ==
    <<"A","B","C","D","E","F","G","H","I","J","K","L","M",
      "N","O","P","Q","R","S","T","U","V","W","X","Y","Z">>

LowerCase ==
    <<"a","b","c","d","e","f","g","h","i","j","k","l","m",
      "n","o","p","q","r","s","t","u","v","w","x","y","z">>

\* towlower on one character.
towlower(c) ==
    IF \E i \in 1..26 : UpperCase[i] = c
    THEN LowerCase[CHOOSE i \in 1..26 : UpperCase[i] = c]
    ELSE c

\* The loop of towlower over a file name.
ToLower(s) == [i \in 1..Len(s) |-> towlower(s[i])]

\* _wcsicmp(a, b) == 0
stringsEqual(a, b) == ToLower(a) = ToLower(b)

\* wcsrchr(s, c): the index of the last c in s, 0 for NULL.
wcsrchr(s, c) ==
    IF \E i \in 1..Len(s) : s[i] = c
    THEN CHOOSE i \in 1..Len(s) : s[i] = c /\ \A j \in (i+1)..Len(s) : s[j] # c
    ELSE 0

\* wcsstr(hay, needle) != NULL
wcsstr(hay, needle) ==
    \E i \in 1..(Len(hay) - Len(needle) + 1) :
        SubSeq(hay, i, i + Len(needle) - 1) = needle

\* s ends with suffix.
EndsWith(s, suffix) ==
    /\ Len(s) >= Len(suffix)
    /\ SubSeq(s, Len(s) - Len(suffix) + 1, Len(s)) = suffix

\* ------------------------------------------------------------------------
\* StringBuffer
\* ------------------------------------------------------------------------

m_defaultSize == 4096

\* StringBuffer(): no buffer, no capacity, no length.
StringBufferNew == [m_buffer |-> NullString, m_capacity |-> 0, m_length |-> 0]

CStr(sb) == sb.m_buffer

\* The mutant of StringBuffer::Append that never doubles the capacity.
SB_Append_NoGrowth(sb, str, strLen) ==
    LET b0 == IF sb.m_buffer = NullString
              THEN [m_buffer |-> <<>>, m_capacity |-> m_defaultSize,
                    m_length |-> sb.m_length]
              ELSE sb
    IN  [m_buffer   |-> SubSeq(b0.m_buffer, 1, b0.m_length) \o SubSeq(str, 1, strLen),
         m_capacity |-> b0.m_capacity,
         m_length   |-> b0.m_length + strLen]

\* StringBuffer::Append: allocates the default buffer on first use, doubles the capacity
\* once when the string and its terminator do not fit, copies the string to
\* the end.
SB_Append(sb, str, strLen) ==
    LET b0  == IF sb.m_buffer = NullString
               THEN [m_buffer |-> <<>>, m_capacity |-> m_defaultSize,
                     m_length |-> sb.m_length]
               ELSE sb
        b1  == IF b0.m_length + strLen + 1 > b0.m_capacity
               THEN [m_buffer |-> SubSeq(b0.m_buffer, 1, b0.m_length),
                     m_capacity |-> b0.m_capacity * 2,
                     m_length |-> b0.m_length]
               ELSE b0
    IN  [m_buffer |-> SubSeq(b1.m_buffer, 1, b1.m_length) \o SubSeq(str, 1, strLen),
         m_capacity |-> b1.m_capacity,
         m_length |-> b1.m_length + strLen]

\* ------------------------------------------------------------------------
\* The TPA list
\* ------------------------------------------------------------------------

\* The mutant of rgTPAExtensions that probes the plain pattern of a kind
\* before its ".ni" pattern.
rgTPAExtensions_PlainFirst ==
    << <<"*",".","d","l","l">>,
       <<"*",".","n","i",".","d","l","l">>,
       <<"*",".","e","x","e">>,
       <<"*",".","n","i",".","e","x","e">> >>

\* rgTPAExtensions of GetTpaList, in probing order.
rgTPAExtensions ==
    << <<"*",".","n","i",".","d","l","l">>,
       <<"*",".","d","l","l">>,
       <<"*",".","n","i",".","e","x","e">>,
       <<"*",".","e","x","e">> >>

countExtensions == Len(rgTPAExtensions)

\* The mutant of RemoveExtensionAndNi that cuts a trailing ".ni" from a
\* name of three characters too.
RemoveExtensionAndNi_NoLengthCheck(name) ==
    LET extension == wcsrchr(name, ".")
    IN  IF extension = 0
        THEN name
        ELSE LET cut == SubSeq(name, 1, extension - 1)
                 len == Len(cut)
             IN  IF /\ len >= 3
                    /\ cut[len] = "i"
                    /\ cut[len - 1] = "n"
                    /\ cut[len - 2] = "."
                 THEN SubSeq(cut, 1, len - 3)
                 ELSE cut

\* RemoveExtensionAndNi: cuts at the last '.', then cuts a trailing ".ni"
\* when more than three characters remain.
RemoveExtensionAndNi(name) ==
    LET extension == wcsrchr(name, ".")
    IN  IF extension = 0
        THEN name
        ELSE LET cut == SubSeq(name, 1, extension - 1)
                 len == Len(cut)
             IN  IF /\ len > 3
                    /\ cut[len] = "i"
                    /\ cut[len - 1] = "n"
                    /\ cut[len - 2] = "."
                 THEN SubSeq(cut, 1, len - 3)
                 ELSE cut

\* TPAListContainsFile: for each extension, searches the list for
\* "\" name extension ";".
TPAListContainsFile(tpaList, fileNameWithoutExtension) ==
    /\ CStr(tpaList) # NullString
    /\ \E iExtension \in 1..countExtensions :
          wcsstr(CStr(tpaList),
                 <<"\\">> \o fileNameWithoutExtension
                          \o Tail(rgTPAExtensions[iExtension]) \o <<";">>)

\* FindFirstFile / FindNextFile: a directory entry matches "*" suffix when
\* its name, or its alternate name of 8.3 form when it has one, ends with
\* the suffix, letter case ignored.
MatchesPattern(data, pattern) ==
    \/ EndsWith(ToLower(data.cFileName), Tail(pattern))
    \/ EndsWith(ToLower(data.cAlternateFileName), Tail(pattern))

\* The mutant of the loop body that adds no file to the list.
AddFileToTPAList_NothingAdded(tpaList, targetPath, data) == tpaList

\* The body of the do-while loop of AddFilesFromDirectoryToTPAList for one
\* entry returned by the enumeration: the list after the entry.
AddFileToTPAList(tpaList, targetPath, data) ==
    IF data.isDirectory
    THEN tpaList
    ELSE LET cFileName == ToLower(data.cFileName)
             fileNameWithoutExtension == RemoveExtensionAndNi(cFileName)
         IN  IF ~TPAListContainsFile(tpaList, fileNameWithoutExtension)
             THEN LET assemblyPath == targetPath \o cFileName
                  IN  SB_Append(SB_Append(tpaList, assemblyPath, Len(assemblyPath)),
                                <<";">>, 1)
             ELSE tpaList

\* ------------------------------------------------------------------------
\* The environment
\* ------------------------------------------------------------------------

\* The value of CORE_LIBRARIES with the "\" GetTpaList adds.
CoreLibrariesPath == <<"l", "\\">>

\* The value of CORE_LIBRARIES as TryRun reads it, line 405.
CoreLibraries == <<"l">>

\* The directory of the target module, with its last "\": lines 391-394.
AppPath == <<"p", "\\">>

\* The value of CORE_ROOT with the "\" the constructor adds.
CoreRootPath == <<"r", "\\">>

\* m_hostDirectoryPath: the host path up to and including its last "\".
HostDirectoryPath == <<"h", "\\">>

\* The file name of the runtime library, line 18.
coreCLRDll == <<"C","o","r","e","C","L","R",".","d","l","l">>

\* WIN32_FIND_DATA of a file.  The alternate name is left empty: the one of
\* a name whose extension has three characters ends as the name does after
\* its last '.', and no pattern matches it that does not match the name.
File(name) ==
    [cFileName |-> name, cAlternateFileName |-> <<>>, isDirectory |-> FALSE]

\* WIN32_FIND_DATA of a file with a longer extension: its alternate name
\* has the first three characters of the extension.
FileWithAlternate(name, alternate) ==
    [cFileName |-> name, cAlternateFileName |-> alternate, isDirectory |-> FALSE]

Directory(name) ==
    [cFileName |-> name, cAlternateFileName |-> <<>>, isDirectory |-> TRUE]

\* The directory entries the scanned directories are filled from.
FilePool ==
    { File(<<"a",".","d","l","l">>),
      File(<<"a",".","n","i",".","d","l","l">>),
      File(<<"a",".","n","i",".","n","i",".","d","l","l">>),
      File(<<"A",".","E","X","E">>),
      File(<<"a",".","n","i",".","e","x","e">>),
      File(<<".","n","i",".","d","l","l">>),
      File(<<".","d","l","l">>),
      FileWithAlternate(<<"a",".","d","l","l","x">>, <<"A","~","1",".","D","L","L">>),
      File(<<"a",".","t","x","t">>),
      Directory(<<"c",".","d","l","l">>) }

\* The directory entries the CORE_LIBRARIES directory is filled from.
LibrariesPool ==
    { File(<<"a",".","d","l","l">>),
      File(<<"a",".","n","i",".","d","l","l">>),
      File(<<"a",".","n","i",".","n","i",".","d","l","l">>),
      File(<<"A",".","E","X","E">>),
      File(<<".","d","l","l">>) }

\* A directory holds at most MaxFiles entries of the pool.
DirectoryContents == { c \in SUBSET FilePool : Cardinality(c) <= MaxFiles }

\* The directory CoreCLR.dll is loaded from, lines 162-173, holds that file.
CoreCLRDirectories == { c \cup { File(coreCLRDll) } : c \in DirectoryContents }

\* The contents of the scanned directories; no CORE_LIBRARIES, no directory.
FileSystems(libSet) ==
    [lib : IF libSet
           THEN { c \in DirectoryContents : c \subseteq LibrariesPool }
           ELSE {{}},
     clr : CoreCLRDirectories]

\* The file systems of the runs of the whole program.
RunPool == { File(<<"a",".","d","l","l">>), File(<<"A",".","E","X","E">>) }

RunFileSystems(libSet) ==
    { f \in FileSystems(libSet) :
        /\ f.lib \subseteq RunPool /\ Cardinality(f.lib) <= 1
        /\ (f.clr \ { File(coreCLRDll) }) \subseteq RunPool
        /\ Cardinality(f.clr) <= 2 }

\* ------------------------------------------------------------------------
\* The command line
\* ------------------------------------------------------------------------

\* The values of argv[0].
ProgramNames ==
    { <<"t",".","e","x","e">>, <<"t",".","E","X","E">>, <<"t">> }

\* The tokens the command line is built from.
Tokens ==
    { <<"/","_","v">>, <<"-","_","D">>, <<"/","_","H">>, <<"x">> }

RECURSIVE TokenLists(_)
TokenLists(n) ==
    IF n = 0
    THEN { <<>> }
    ELSE TokenLists(n - 1) \cup
         { Append(l, t) : l \in { m \in TokenLists(n - 1) : Len(m) = n - 1 },
                          t \in Tokens }

CommandLines == { <<p>> \o l : p \in ProgramNames, l \in TokenLists(MaxArgs) }

\* The exit codes the hosted program returns: 0, 7, 40000, 65536, 2^31 and
\* 2^32 - 1.
HostedExitCodes ==
    { Dword(0, 0), Dword(0, 7), Dword(0, 40000), Dword(1, 0),
      Dword(WordRange \div 2, 0), Dword(WordRange - 1, WordRange - 1) }

\* The mutant of tryParseOption that does not know the help option.
tryParseOption_HelpIgnored(arg) ==
    IF stringsEqual(arg, <<"/","_","v">>) \/ stringsEqual(arg, <<"-","_","v">>)
    THEN "verbose"
    ELSE IF stringsEqual(arg, <<"/","_","d">>) \/ stringsEqual(arg, <<"-","_","d">>)
    THEN "waitForDebugger"
    ELSE "none"

\* The mutant of tryParseOption that compares the letters as they are.
tryParseOption_CaseSensitive(arg) ==
    IF arg = <<"/","_","v">> \/ arg = <<"-","_","v">>
    THEN "verbose"
    ELSE IF arg = <<"/","_","d">> \/ arg = <<"-","_","d">>
    THEN "waitForDebugger"
    ELSE IF arg = <<"/","_","h">> \/ arg = <<"-","_","h">>
    THEN "helpRequested"
    ELSE "none"

\* tryParseOption: which flag the token sets, "none" when it is no option.
tryParseOption(arg) ==
    IF stringsEqual(arg, <<"/","_","v">>) \/ stringsEqual(arg, <<"-","_","v">>)
    THEN "verbose"
    ELSE IF stringsEqual(arg, <<"/","_","d">>) \/ stringsEqual(arg, <<"-","_","d">>)
    THEN "waitForDebugger"
    ELSE IF stringsEqual(arg, <<"/","_","h">>) \/ stringsEqual(arg, <<"-","_","h">>)
    THEN "helpRequested"
    ELSE "none"

\* The option flags before parsing; newArgv = argv + 1.
OptionsStart(args) ==
    [verbose |-> FALSE, waitForDebugger |-> FALSE, helpRequested |-> FALSE,
     newArgv |-> args]

\* while (newArgc > 0 && tryParseOption(newArgv[0])) { newArgc--; newArgv++; }
RECURSIVE ParseOptions(_)
ParseOptions(o) ==
    IF Len(o.newArgv) > 0 /\ tryParseOption(o.newArgv[1]) # "none"
    THEN LET flag == tryParseOption(o.newArgv[1])
         IN  ParseOptions([verbose |-> o.verbose \/ flag = "verbose",
                           waitForDebugger |-> o.waitForDebugger \/ flag = "waitForDebugger",
                           helpRequested |-> o.helpRequested \/ flag = "helpRequested",
                           newArgv |-> Tail(o.newArgv)])
    ELSE o

\* ------------------------------------------------------------------------
\* State
\* ------------------------------------------------------------------------

VARIABLES
    argv,               \* the command line, argv[0] first
    coreRootSet,        \* CORE_ROOT is set and not empty
    coreLibrariesSet,   \* CORE_LIBRARIES is set and not empty
    fs,                 \* the entries of the CORE_LIBRARIES and CoreCLR directories
    pc,                 \* the statement wmain / TryRun is at
    programPath,        \* wmain: argv[0] with its extension replaced
    opts,               \* wmain: verbose, waitForDebugger, helpRequested, newArgv
    exitCode,           \* wmain: DWORD exitCode
    success,            \* wmain: the result of TryRun
    wmainResult,        \* the value wmain returns
    hostEnvironment,    \* TryRun: the HostEnvironment and its members
    loader,             \* the OS loader: load attempts, reference counts, pins
    managedExeModule,   \* TryRun: the handle of the target module
    calls,              \* the ICLRRuntimeHost2 calls made, with their outcome
    failedAt,           \* the stage at which TryRun returned false
    hostedExit,         \* the exit code ExecuteAssembly returned
    execArgv,           \* the argument vector handed to ExecuteAssembly
    scan,               \* AddFilesFromDirectoryToTPAList: directory, extension, find handle
    paths,              \* TryRun: appPath, appNiPath, nativeDllSearchDirs
    domain,             \* the properties handed to CreateAppDomainWithManager
    gate,               \* TryRun: what the wait for the debugger did
    tpaReturns,         \* what each call of GetTpaList returned, and whether it scanned
    printed,            \* what wmain wrote to the console
    fileName,           \* RemoveExtensionAndNi: the argument before the call
    fileNameAfter,      \* RemoveExtensionAndNi: the argument after the call
    stringBuffer,       \* a StringBuffer: m_buffer, m_capacity, m_length
    appended            \* the strings handed to StringBuffer::Append, in call order

vars ==
    <<argv, coreRootSet, coreLibrariesSet, fs, pc, programPath, opts, exitCode,
      success, wmainResult, hostEnvironment, loader, managedExeModule, calls,
      failedAt, hostedExit, execArgv, scan, paths, domain, gate, tpaReturns, printed,
      fileName, fileNameAfter, stringBuffer, appended>>

envVars == <<argv, coreRootSet, coreLibrariesSet, fs>>

wmainVars == <<programPath, opts>>

recordVars == <<paths, domain, gate, tpaReturns, printed>>

\* The state of RemoveExtensionAndNi and of a StringBuffer taken alone.
unitVars == <<fileName, fileNameAfter, stringBuffer, appended>>

\* No RemoveExtensionAndNi and no StringBuffer taken alone.
UnitsIdle ==
    /\ fileName = NullString
    /\ fileNameAfter = NullString
    /\ stringBuffer = StringBufferNew
    /\ appended = <<>>

Unset == "unset"

LoadDirs == {"coreroot", "hostdir"}

\* appPath and appNiPath as lines 371-372 declare them, the empty string,
\* and nativeDllSearchDirs, which line 401 declares without a value.
NoPaths ==
    [appPath |-> <<>>, appNiPath |-> <<>>,
     nativeDllSearchDirs |-> UninitializedPath]

\* TryRun, lines 391-412: appPath is the directory of the target module,
\* appNiPath is appPath twice, nativeDllSearchDirs is appPath, the value of
\* CORE_LIBRARIES when it is set, and m_coreCLRDirectoryPath.
PathsOf(libSet, coreCLRDirectoryPath) ==
    [appPath |-> AppPath,
     appNiPath |-> AppPath \o <<";">> \o AppPath,
     nativeDllSearchDirs |->
         AppPath \o (IF libSet THEN <<";">> \o CoreLibraries ELSE <<>>)
                 \o <<";">> \o coreCLRDirectoryPath]

\* No call of CreateAppDomainWithManager yet.
NoDomain == [nProperties |-> 0, property_keys |-> <<>>, property_values |-> <<>>]

\* TryRun before line 530.
GateNotReached ==
    [state |-> "not reached", IsDebuggerPresent |-> FALSE, attached |-> FALSE]

\* The scan before AddFilesFromDirectoryToTPAList runs.
ScanIdle == [target |-> "none", iExtension |-> 0, handle |-> {}, open |-> FALSE]

\* ------------------------------------------------------------------------
\* wmain, up to the call of TryRun
\* ------------------------------------------------------------------------

Init ==
    /\ argv \in CommandLines
    /\ coreRootSet \in BOOLEAN
    /\ coreLibrariesSet \in BOOLEAN
    /\ fs \in RunFileSystems(coreLibrariesSet)
    /\ pc = "wmain"
    /\ programPath = NullString
    /\ opts = OptionsStart(<<>>)
    /\ exitCode = NoValue
    /\ success = Unset
    /\ wmainResult = NoValue
    /\ hostEnvironment = [m_coreCLRModule |-> NULL,
                          m_coreCLRDirectoryPath |-> UninitializedPath,
                          m_tpaList |-> StringBufferNew,
                          m_CLRRuntimeHost |-> NULL]
    /\ loader = [attempts |-> <<>>, refs |-> [d \in LoadDirs |-> 0], pinned |-> {}]
    /\ managedExeModule = NULL
    /\ calls = <<>>
    /\ failedAt = "none"
    /\ hostedExit = NoValue
    /\ execArgv = NullString
    /\ scan = ScanIdle
    /\ paths = NoPaths
    /\ domain = NoDomain
    /\ gate = GateNotReached
    /\ tpaReturns = <<>>
    /\ printed = "nothing"
    /\ UnitsIdle

\* wmain, lines 615-659: the copy of argv[0], the extension check on it, the
\* option loop, the help exit.  wcsrchr returns NULL for a name without '.',
\* and the pointer NULL + 1 is then read, programPath holding the copy.
WmainParse ==
    /\ pc = "wmain"
    /\ LET dot == wcsrchr(argv[1], ".")
           extension == SubSeq(argv[1], dot + 1, Len(argv[1]))
           parsed == ParseOptions(OptionsStart(Tail(argv)))
       IN  IF dot = 0
           THEN /\ pc' = "crashed"
                /\ programPath' = argv[1]
                /\ UNCHANGED <<opts, wmainResult, printed>>
           ELSE IF extension # <<"e","x","e">>
           THEN /\ pc' = "exit"
                /\ wmainResult' = -1
                /\ printed' = "needs exe extension"
                /\ programPath' = argv[1]
                /\ UNCHANGED opts
           ELSE /\ programPath' = SubSeq(argv[1], 1, dot) \o <<"d","l","l">>
                /\ opts' = parsed
                /\ IF parsed.helpRequested
                   THEN pc' = "exit" /\ wmainResult' = -1 /\ printed' = "showHelp"
                   ELSE pc' = "TryRun" /\ UNCHANGED <<wmainResult, printed>>
    /\ UNCHANGED <<envVars, unitVars, paths, domain, gate, tpaReturns, exitCode, success, hostEnvironment, loader,
                   managedExeModule, calls, failedAt, hostedExit, execArgv, scan>>

\* ------------------------------------------------------------------------
\* TryRun: the HostEnvironment
\* ------------------------------------------------------------------------

\* The mutant of TryRunEnter that assumes success.
TryRunEnter_AssumeSuccess ==
    /\ pc = "TryRun"
    /\ exitCode' = ToDword(0)
    /\ pc' = "HostEnvironment"
    /\ UNCHANGED <<envVars, unitVars, recordVars, wmainVars, success, wmainResult, hostEnvironment, loader,
                   managedExeModule, calls, failedAt, hostedExit, execArgv, scan>>

\* TryRun, line 367: assume failure.
TryRunEnter ==
    /\ pc = "TryRun"
    /\ exitCode' = Sentinel
    /\ pc' = "HostEnvironment"
    /\ UNCHANGED <<envVars, unitVars, recordVars, wmainVars, success, wmainResult, hostEnvironment, loader,
                   managedExeModule, calls, failedAt, hostedExit, execArgv, scan>>

\* TryLoadCoreCLR: the handle returned for the outcomes of LoadLibraryExW
\* and GetModuleHandleExW(GET_MODULE_HANDLE_EX_FLAG_PIN).
TryLoadCoreCLR(directory, loaded, pinned) ==
    IF ~loaded THEN NULL
    ELSE IF ~pinned THEN NULL
    ELSE directory

\* TryLoadCoreCLR: what the OS loader holds after the attempt.  A load that
\* succeeded is not undone when the pin fails.
LoaderAfterTryLoad(l, directory, loaded, pinned) ==
    [attempts |-> Append(l.attempts,
                         [directory |-> directory, loaded |-> loaded,
                          pinned |-> loaded /\ pinned]),
     refs     |-> IF loaded
                  THEN [l.refs EXCEPT ![directory] = @ + 1]
                  ELSE l.refs,
     pinned   |-> IF loaded /\ pinned THEN l.pinned \cup {directory} ELSE l.pinned]

\* GetModuleFileNameW(m_coreCLRModule) cut after its last backslash.
DirectoryOfModule(module) ==
    IF module = "coreroot" THEN CoreRootPath ELSE HostDirectoryPath

\* HostEnvironment::HostEnvironment, lines 141-155: CORE_ROOT.
CtorCoreRoot ==
    /\ pc = "HostEnvironment"
    /\ IF coreRootSet
       THEN \E loaded \in BOOLEAN, pinned \in BOOLEAN :
               /\ (~loaded => ~pinned)
               /\ hostEnvironment' =
                      [hostEnvironment EXCEPT
                          !.m_coreCLRModule = TryLoadCoreCLR("coreroot", loaded, pinned)]
               /\ loader' = LoaderAfterTryLoad(loader, "coreroot", loaded, pinned)
       ELSE UNCHANGED <<hostEnvironment, loader>>
    /\ pc' = "HostDirectory"
    /\ UNCHANGED <<envVars, unitVars, recordVars, wmainVars, exitCode, success, wmainResult,
                   managedExeModule, calls, failedAt, hostedExit, execArgv, scan>>

\* The mutant of CtorHostDirectory that asks for the copy in the host
\* directory whatever the attempt on CORE_ROOT returned.
CtorHostDirectory_AlwaysTry ==
    /\ pc = "HostDirectory"
    /\ \E loaded \in BOOLEAN, pinned \in BOOLEAN :
          /\ (~loaded => ~pinned)
          /\ LET module == IF hostEnvironment.m_coreCLRModule = NULL
                           THEN TryLoadCoreCLR("hostdir", loaded, pinned)
                           ELSE hostEnvironment.m_coreCLRModule
             IN  /\ hostEnvironment' =
                        [hostEnvironment EXCEPT
                            !.m_coreCLRModule = module,
                            !.m_coreCLRDirectoryPath =
                                IF module # NULL
                                THEN DirectoryOfModule(module)
                                ELSE UninitializedPath]
                 /\ loader' = LoaderAfterTryLoad(loader, "hostdir", loaded, pinned)
    /\ pc' = "LoadManagedExe"
    /\ UNCHANGED <<envVars, unitVars, recordVars, wmainVars, exitCode, success, wmainResult,
                   managedExeModule, calls, failedAt, hostedExit, execArgv, scan>>

\* HostEnvironment::HostEnvironment, lines 157-177: the host directory, then
\* the directory CoreCLR.dll was loaded from.
CtorHostDirectory ==
    /\ pc = "HostDirectory"
    /\ \E loaded \in BOOLEAN, pinned \in BOOLEAN :
          /\ (~loaded => ~pinned)
          /\ (hostEnvironment.m_coreCLRModule # NULL => ~loaded)
          /\ LET module == IF hostEnvironment.m_coreCLRModule = NULL
                           THEN TryLoadCoreCLR("hostdir", loaded, pinned)
                           ELSE hostEnvironment.m_coreCLRModule
             IN  /\ hostEnvironment' =
                        [hostEnvironment EXCEPT
                            !.m_coreCLRModule = module,
                            !.m_coreCLRDirectoryPath =
                                IF module # NULL
                                THEN DirectoryOfModule(module)
                                ELSE UninitializedPath]
                 /\ loader' = IF hostEnvironment.m_coreCLRModule = NULL
                              THEN LoaderAfterTryLoad(loader, "hostdir", loaded, pinned)
                              ELSE loader
    /\ pc' = "LoadManagedExe"
    /\ UNCHANGED <<envVars, unitVars, recordVars, wmainVars, exitCode, success, wmainResult,
                   managedExeModule, calls, failedAt, hostedExit, execArgv, scan>>

\* ------------------------------------------------------------------------
\* TryRun: the target module and the paths
\* ------------------------------------------------------------------------

\* The mutant of LoadManagedExe that goes on without the module.
LoadManagedExe_IgnoreFailure ==
    /\ pc = "LoadManagedExe"
    /\ \E loaded \in BOOLEAN :
          /\ managedExeModule' = IF loaded THEN "managedExe" ELSE NULL
          /\ pc' = "Paths"
          /\ UNCHANGED <<failedAt, success>>
    /\ UNCHANGED <<envVars, unitVars, recordVars, wmainVars, exitCode, wmainResult, hostEnvironment, loader,
                   calls, hostedExit, execArgv, scan>>

\* TryRun, lines 375-384: the OS loader resolves and loads the target module.
LoadManagedExe ==
    /\ pc = "LoadManagedExe"
    /\ \E loaded \in BOOLEAN :
          /\ managedExeModule' = IF loaded THEN "managedExe" ELSE NULL
          /\ IF loaded
             THEN pc' = "Paths" /\ UNCHANGED <<failedAt, success>>
             ELSE pc' = "return" /\ failedAt' = "LoadManagedExe" /\ success' = "false"
    /\ UNCHANGED <<envVars, unitVars, recordVars, wmainVars, exitCode, wmainResult, hostEnvironment, loader,
                   calls, hostedExit, execArgv, scan>>

\* TryRun, lines 386-412: appPath, appNiPath, nativeDllSearchDirs.  Line 412
\* appends m_coreCLRDirectoryPath, which no one wrote when CoreCLR.dll was
\* not loaded: wcscat_s then reads an indeterminate array, and either finds
\* a terminator in time or ends the process.
BuildPaths ==
    /\ pc = "Paths"
    /\ IF hostEnvironment.m_coreCLRModule = NULL
       THEN pc' \in {"GetCLRRuntimeHost", "crashed"}
       ELSE pc' = "GetCLRRuntimeHost"
    /\ paths' = PathsOf(coreLibrariesSet, hostEnvironment.m_coreCLRDirectoryPath)
    /\ UNCHANGED <<envVars, unitVars, domain, gate, tpaReturns, printed, wmainVars, exitCode, success, wmainResult, hostEnvironment,
                   loader, managedExeModule, calls, failedAt, hostedExit, execArgv, scan>>

\* HostEnvironment::GetCLRRuntimeHost and TryRun, lines 416-419.
GetCLRRuntimeHost ==
    /\ pc = "GetCLRRuntimeHost"
    /\ \E found \in BOOLEAN, acquired \in BOOLEAN :
          /\ (~found => ~acquired)
          /\ (hostEnvironment.m_coreCLRModule = NULL => ~found)
          /\ IF hostEnvironment.m_coreCLRModule # NULL /\ found /\ acquired
             THEN /\ hostEnvironment' =
                         [hostEnvironment EXCEPT !.m_CLRRuntimeHost = "host"]
                  /\ pc' = "SetStartupFlags"
                  /\ UNCHANGED <<failedAt, success>>
             ELSE /\ pc' = "return"
                  /\ failedAt' = "GetCLRRuntimeHost"
                  /\ success' = "false"
                  /\ UNCHANGED hostEnvironment
    /\ UNCHANGED <<envVars, unitVars, recordVars, wmainVars, exitCode, wmainResult, loader,
                   managedExeModule, calls, hostedExit, execArgv, scan>>

\* ------------------------------------------------------------------------
\* TryRun: starting the runtime
\* ------------------------------------------------------------------------

Call(op, ok) == [op |-> op, ok |-> ok]

\* TryRun, lines 426-432.
SetStartupFlags ==
    /\ pc = "SetStartupFlags"
    /\ \E ok \in BOOLEAN :
          /\ calls' = Append(calls, Call("SetStartupFlags", ok))
          /\ IF ok
             THEN pc' = "Authenticate" /\ UNCHANGED <<failedAt, success>>
             ELSE pc' = "return" /\ failedAt' = "SetStartupFlags" /\ success' = "false"
    /\ UNCHANGED <<envVars, unitVars, recordVars, wmainVars, exitCode, wmainResult, hostEnvironment, loader,
                   managedExeModule, hostedExit, execArgv, scan>>

\* The mutant of Authenticate that does not look at the HRESULT.
Authenticate_IgnoreFailure ==
    /\ pc = "Authenticate"
    /\ \E ok \in BOOLEAN :
          /\ calls' = Append(calls, Call("Authenticate", ok))
          /\ pc' = "Start"
          /\ UNCHANGED <<failedAt, success>>
    /\ UNCHANGED <<envVars, unitVars, recordVars, wmainVars, exitCode, wmainResult, hostEnvironment, loader,
                   managedExeModule, hostedExit, execArgv, scan>>

\* TryRun, lines 439-443.
Authenticate ==
    /\ pc = "Authenticate"
    /\ \E ok \in BOOLEAN :
          /\ calls' = Append(calls, Call("Authenticate", ok))
          /\ IF ok
             THEN pc' = "Start" /\ UNCHANGED <<failedAt, success>>
             ELSE pc' = "return" /\ failedAt' = "Authenticate" /\ success' = "false"
    /\ UNCHANGED <<envVars, unitVars, recordVars, wmainVars, exitCode, wmainResult, hostEnvironment, loader,
                   managedExeModule, hostedExit, execArgv, scan>>

\* TryRun, lines 447-451.
Start ==
    /\ pc = "Start"
    /\ \E ok \in BOOLEAN :
          /\ calls' = Append(calls, Call("Start", ok))
          /\ IF ok
             THEN pc' = "GetTpaList" /\ UNCHANGED <<failedAt, success>>
             ELSE pc' = "return" /\ failedAt' = "Start" /\ success' = "false"
    /\ UNCHANGED <<envVars, unitVars, recordVars, wmainVars, exitCode, wmainResult, hostEnvironment, loader,
                   managedExeModule, hostedExit, execArgv, scan>>

\* ------------------------------------------------------------------------
\* HostEnvironment::GetTpaList
\* ------------------------------------------------------------------------

\* targetPath of AddFilesFromDirectoryToTPAList.
TargetPath(target) ==
    IF target = "lib"
    THEN CoreLibrariesPath
    ELSE hostEnvironment.m_coreCLRDirectoryPath

\* The entries of the directory FindFirstFile enumerates for a pattern.
Matching(target, iExtension) ==
    { e \in (IF target = "lib" THEN fs.lib ELSE fs.clr) :
        MatchesPattern(e, rgTPAExtensions[iExtension]) }

\* AddFilesFromDirectoryToTPAList called on a directory.
ScanOf(target) ==
    [target |-> target, iExtension |-> 1, handle |-> {}, open |-> FALSE]

\* GetTpaList, line 317: the pointer returned, and whether the call scanned.
TpaReturn(tpaList, scanned) == [list |-> CStr(tpaList), scanned |-> scanned]

\* GetTpaList, lines 291-312: nothing to do when the list has a buffer;
\* else CORE_LIBRARIES first when it is set.
GetTpaListEnter ==
    /\ pc = "GetTpaList"
    /\ IF CStr(hostEnvironment.m_tpaList) # NullString
       THEN /\ pc' = "CreateAppDomainWithManager"
            /\ tpaReturns' = Append(tpaReturns,
                                    TpaReturn(hostEnvironment.m_tpaList, FALSE))
            /\ UNCHANGED scan
       ELSE /\ pc' = "AddFiles"
            /\ scan' = ScanOf(IF coreLibrariesSet THEN "lib" ELSE "clr")
            /\ UNCHANGED tpaReturns
    /\ UNCHANGED <<envVars, unitVars, paths, domain, gate, printed, wmainVars, exitCode, success, wmainResult, hostEnvironment,
                   loader, managedExeModule, calls, failedAt, hostedExit, execArgv>>

\* The end of one pass of the for loop over the extensions: the next
\* extension, then the CoreCLR directory (GetTpaList, line 314), then the
\* return of GetTpaList.
NextExtension ==
    IF scan.iExtension < countExtensions
    THEN /\ scan' = [scan EXCEPT !.iExtension = @ + 1, !.handle = {}, !.open = FALSE]
         /\ pc' = "AddFiles"
         /\ UNCHANGED tpaReturns
    ELSE IF scan.target = "lib"
    THEN /\ scan' = ScanOf("clr")
         /\ pc' = "AddFiles"
         /\ UNCHANGED tpaReturns
    ELSE /\ scan' = ScanIdle
         /\ pc' = "CreateAppDomainWithManager"
         /\ tpaReturns' = Append(tpaReturns, TpaReturn(hostEnvironment.m_tpaList, TRUE))

\* AddFilesFromDirectoryToTPAList, lines 236-280: FindFirstFile for the
\* pattern and the loop body for the entry it returns.
FindFirstFile ==
    /\ pc = "AddFiles"
    /\ ~scan.open
    /\ LET found == Matching(scan.target, scan.iExtension)
       IN  IF found = {}
           THEN NextExtension /\ UNCHANGED hostEnvironment
           ELSE \E data \in found :
                   /\ hostEnvironment' =
                          [hostEnvironment EXCEPT
                              !.m_tpaList = AddFileToTPAList(@, TargetPath(scan.target), data)]
                   /\ scan' = [scan EXCEPT !.handle = found \ {data}, !.open = TRUE]
                   /\ pc' = "AddFiles"
                   /\ UNCHANGED tpaReturns
    /\ UNCHANGED <<envVars, unitVars, paths, domain, gate, printed, wmainVars, exitCode, success, wmainResult,
                   loader, managedExeModule, calls, failedAt, hostedExit, execArgv>>

\* AddFilesFromDirectoryToTPAList, lines 247-283: FindNextFile and the loop
\* body for the entry it returns, or FindClose when there is none.
FindNextFile ==
    /\ pc = "AddFiles"
    /\ scan.open
    /\ IF scan.handle = {}
       THEN NextExtension /\ UNCHANGED hostEnvironment
       ELSE \E data \in scan.handle :
               /\ hostEnvironment' =
                      [hostEnvironment EXCEPT
                          !.m_tpaList = AddFileToTPAList(@, TargetPath(scan.target), data)]
               /\ scan' = [scan EXCEPT !.handle = @ \ {data}]
               /\ pc' = "AddFiles"
               /\ UNCHANGED tpaReturns
    /\ UNCHANGED <<envVars, unitVars, paths, domain, gate, printed, wmainVars, exitCode, success, wmainResult,
                   loader, managedExeModule, calls, failedAt, hostedExit, execArgv>>

\* ------------------------------------------------------------------------
\* TryRun: the domain, the execution, the teardown
\* ------------------------------------------------------------------------

\* TryRun, lines 473-479: the elements of property_keys, each the string
\* literals the element is written with.  The compiler joins adjacent
\* literals into one string, and no comma stands between the last two.
property_keys ==
    << <<"TRUSTED_PLATFORM_ASSEMBLIES">>,
       <<"APP_PATHS">>,
       <<"APP_NI_PATHS">>,
       <<"NATIVE_DLL_SEARCH_DIRECTORIES", "AppDomainCompatSwitch">> >>

\* TryRun, lines 480-489: the elements of property_values.
property_values(tpaList, p) ==
    << tpaList, p.appPath, p.appNiPath, p.nativeDllSearchDirs >>

\* TryRun, lines 500-528: nProperties is sizeof(property_keys)/sizeof(wchar_t*).
CreateAppDomainWithManager ==
    /\ pc = "CreateAppDomainWithManager"
    /\ domain' = [nProperties |-> Len(property_keys),
                  property_keys |-> property_keys,
                  property_values |->
                      property_values(tpaReturns[Len(tpaReturns)].list, paths)]
    /\ \E ok \in BOOLEAN :
          /\ calls' = Append(calls, Call("CreateAppDomainWithManager", ok))
          /\ IF ok
             THEN pc' = "DebugGate" /\ UNCHANGED <<failedAt, success>>
             ELSE /\ pc' = "return"
                  /\ failedAt' = "CreateAppDomainWithManager"
                  /\ success' = "false"
    /\ UNCHANGED <<envVars, unitVars, paths, gate, tpaReturns, printed, wmainVars, exitCode, wmainResult, hostEnvironment, loader,
                   managedExeModule, hostedExit, execArgv, scan>>

\* The mutant of DebugGate that waits for a key whenever /_d was given.
DebugGate_WaitAlways ==
    /\ pc = "DebugGate"
    /\ \E IsDebuggerPresent \in BOOLEAN :
          IF opts.waitForDebugger
          THEN /\ pc' = "getchar"
               /\ gate' = [gate EXCEPT !.state = "blocked",
                                       !.IsDebuggerPresent = IsDebuggerPresent]
          ELSE /\ pc' = "ExecuteAssembly"
               /\ gate' = [gate EXCEPT !.state = "passed",
                                       !.IsDebuggerPresent = IsDebuggerPresent]
    /\ UNCHANGED <<envVars, unitVars, paths, domain, tpaReturns, printed,
                   wmainVars, exitCode, success, wmainResult, hostEnvironment,
                   loader, managedExeModule, calls, failedAt, hostedExit, execArgv, scan>>

\* TryRun, lines 530-535: with /_d and no debugger attached, getchar().  The
\* gate records what IsDebuggerPresent returned at line 532.
DebugGate ==
    /\ pc = "DebugGate"
    /\ \E IsDebuggerPresent \in BOOLEAN :
          IF opts.waitForDebugger /\ ~IsDebuggerPresent
          THEN /\ pc' = "getchar"
               /\ gate' = [gate EXCEPT !.state = "blocked",
                                       !.IsDebuggerPresent = IsDebuggerPresent]
          ELSE /\ pc' = "ExecuteAssembly"
               /\ gate' = [gate EXCEPT !.state = "passed",
                                       !.IsDebuggerPresent = IsDebuggerPresent]
    /\ UNCHANGED <<envVars, unitVars, paths, domain, tpaReturns, printed, wmainVars, exitCode, success, wmainResult, hostEnvironment,
                   loader, managedExeModule, calls, failedAt, hostedExit, execArgv, scan>>

\* TryRun, lines 535-544: a key is pressed; the debugger is attached or not.
KeyPressed ==
    /\ pc = "getchar"
    /\ pc' = "ExecuteAssembly"
    /\ \E IsDebuggerPresent \in BOOLEAN :
          gate' = [gate EXCEPT !.state = "resumed", !.attached = IsDebuggerPresent]
    /\ UNCHANGED <<envVars, unitVars, paths, domain, tpaReturns, printed, wmainVars, exitCode, success, wmainResult, hostEnvironment,
                   loader, managedExeModule, calls, failedAt, hostedExit, execArgv, scan>>

\* ICLRRuntimeHost2::ExecuteAssembly: the value of *pReturnValue after the
\* call.  A failed call leaves it as it was.
HostExecuteAssembly(ok, returned, before) == IF ok THEN returned ELSE before

\* TryRun, lines 547-551.
ExecuteAssembly ==
    /\ pc = "ExecuteAssembly"
    /\ \E ok \in BOOLEAN, returned \in HostedExitCodes :
          /\ (~ok => returned = Dword(0, 0))
          /\ calls' = Append(calls, Call("ExecuteAssembly", ok))
          /\ execArgv' = opts.newArgv
          /\ exitCode' = HostExecuteAssembly(ok, returned, exitCode)
          /\ hostedExit' = IF ok THEN returned ELSE hostedExit
          /\ IF ok
             THEN pc' = "UnloadAppDomain" /\ UNCHANGED <<failedAt, success>>
             ELSE pc' = "return" /\ failedAt' = "ExecuteAssembly" /\ success' = "false"
    /\ UNCHANGED <<envVars, unitVars, recordVars, wmainVars, wmainResult, hostEnvironment, loader,
                   managedExeModule, scan>>

\* The mutant of UnloadAppDomain that falls back to the failure code.
UnloadAppDomain_ResetExitCode ==
    /\ pc = "UnloadAppDomain"
    /\ \E ok \in BOOLEAN :
          /\ calls' = Append(calls, Call("UnloadAppDomain", ok))
          /\ IF ok
             THEN pc' = "Stop" /\ UNCHANGED <<failedAt, success, exitCode>>
             ELSE /\ pc' = "return"
                  /\ failedAt' = "UnloadAppDomain"
                  /\ success' = "false"
                  /\ exitCode' = Sentinel
    /\ UNCHANGED <<envVars, unitVars, recordVars, wmainVars, wmainResult, hostEnvironment, loader,
                   managedExeModule, hostedExit, execArgv, scan>>

\* TryRun, lines 562-569.
UnloadAppDomain ==
    /\ pc = "UnloadAppDomain"
    /\ \E ok \in BOOLEAN :
          /\ calls' = Append(calls, Call("UnloadAppDomain", ok))
          /\ IF ok
             THEN pc' = "Stop" /\ UNCHANGED <<failedAt, success>>
             ELSE pc' = "return" /\ failedAt' = "UnloadAppDomain" /\ success' = "false"
    /\ UNCHANGED <<envVars, unitVars, recordVars, wmainVars, exitCode, wmainResult, hostEnvironment, loader,
                   managedExeModule, hostedExit, execArgv, scan>>

\* TryRun, lines 578-583.
Stop ==
    /\ pc = "Stop"
    /\ \E ok \in BOOLEAN :
          /\ calls' = Append(calls, Call("Stop", ok))
          /\ IF ok
             THEN pc' = "Release" /\ UNCHANGED <<failedAt, success>>
             ELSE pc' = "return" /\ failedAt' = "Stop" /\ success' = "false"
    /\ UNCHANGED <<envVars, unitVars, recordVars, wmainVars, exitCode, wmainResult, hostEnvironment, loader,
                   managedExeModule, hostedExit, execArgv, scan>>

\* TryRun, lines 591-593: Release has no status; TryRun returns true.
Release ==
    /\ pc = "Release"
    /\ calls' = Append(calls, Call("Release", TRUE))
    /\ success' = "true"
    /\ pc' = "return"
    /\ UNCHANGED <<envVars, unitVars, recordVars, wmainVars, exitCode, wmainResult, hostEnvironment, loader,
                   managedExeModule, failedAt, hostedExit, execArgv, scan>>

\* ~HostEnvironment: FreeLibrary(m_coreCLRModule); a pinned module stays.
LoaderAfterFree(l, module) ==
    IF module # NULL /\ module \notin l.pinned
    THEN [l EXCEPT !.refs[module] = @ - 1]
    ELSE l

\* The mutant of WmainReturn that returns 0 for a successful run.
WmainReturn_ZeroOnSuccess ==
    /\ pc = "return"
    /\ loader' = LoaderAfterFree(loader, hostEnvironment.m_coreCLRModule)
    /\ wmainResult' = IF success = "true" THEN 0 ELSE ToInt32(exitCode)
    /\ pc' = "exit"
    /\ UNCHANGED <<envVars, unitVars, recordVars, wmainVars, exitCode, success, hostEnvironment,
                   managedExeModule, calls, failedAt, hostedExit, execArgv, scan>>

\* The return of TryRun (the HostEnvironment is destroyed) and wmain,
\* lines 670-674: return exitCode.
WmainReturn ==
    /\ pc = "return"
    /\ loader' = LoaderAfterFree(loader, hostEnvironment.m_coreCLRModule)
    /\ wmainResult' = ToInt32(exitCode)
    /\ pc' = "exit"
    /\ UNCHANGED <<envVars, unitVars, recordVars, wmainVars, exitCode, success, hostEnvironment,
                   managedExeModule, calls, failedAt, hostedExit, execArgv, scan>>

\* ------------------------------------------------------------------------
\* Specifications
\* ------------------------------------------------------------------------

Next ==
    \/ WmainParse
    \/ TryRunEnter
    \/ CtorCoreRoot
    \/ CtorHostDirectory
    \/ LoadManagedExe
    \/ BuildPaths
    \/ GetCLRRuntimeHost
    \/ SetStartupFlags
    \/ Authenticate
    \/ Start
    \/ GetTpaListEnter
    \/ FindFirstFile
    \/ FindNextFile
    \/ CreateAppDomainWithManager
    \/ DebugGate
    \/ KeyPressed
    \/ ExecuteAssembly
    \/ UnloadAppDomain
    \/ Stop
    \/ Release
    \/ WmainReturn

\* The whole program, one run of wmain.
Spec == Init /\ [][Next]_vars

\* The state in which TryRun calls GetTpaList: the host was started, on a
\* HostEnvironment that found CoreCLR.dll in the host directory, with any
\* contents of the CORE_LIBRARIES directory and any files beside CoreCLR.dll.
InitTpa ==
    /\ argv = << <<"t",".","e","x","e">> >>
    /\ coreRootSet = FALSE
    /\ coreLibrariesSet \in BOOLEAN
    /\ fs \in FileSystems(coreLibrariesSet)
    /\ pc = "GetTpaList"
    /\ programPath = <<"t",".","d","l","l">>
    /\ opts = OptionsStart(<<>>)
    /\ exitCode = Sentinel
    /\ success = Unset
    /\ wmainResult = NoValue
    /\ hostEnvironment = [m_coreCLRModule |-> "hostdir",
                          m_coreCLRDirectoryPath |-> HostDirectoryPath,
                          m_tpaList |-> StringBufferNew,
                          m_CLRRuntimeHost |-> "host"]
    /\ loader = [attempts |-> << [directory |-> "hostdir", loaded |-> TRUE,
                                  pinned |-> TRUE] >>,
                 refs |-> [d \in LoadDirs |-> IF d = "hostdir" THEN 1 ELSE 0],
                 pinned |-> {"hostdir"}]
    /\ managedExeModule = "managedExe"
    /\ calls = << Call("SetStartupFlags", TRUE), Call("Authenticate", TRUE),
                  Call("Start", TRUE) >>
    /\ failedAt = "none"
    /\ hostedExit = NoValue
    /\ execArgv = NullString
    /\ scan = ScanIdle
    /\ paths = PathsOf(coreLibrariesSet, HostDirectoryPath)
    /\ domain = NoDomain
    /\ gate = GateNotReached
    /\ tpaReturns = <<>>
    /\ printed = "nothing"
    /\ UnitsIdle

NextTpa ==
    \/ GetTpaListEnter
    \/ FindFirstFile
    \/ FindNextFile

\* GetTpaList alone, over the directory contents.
SpecTpa == InitTpa /\ [][NextTpa]_vars

\* ------------------------------------------------------------------------
\* RemoveExtensionAndNi alone
\* ------------------------------------------------------------------------

\* wmain is not running: the state of the program when one of its
\* functions is taken alone.
ProgramIdle ==
    /\ argv = << <<"t",".","e","x","e">> >>
    /\ coreRootSet = FALSE
    /\ coreLibrariesSet = FALSE
    /\ fs = [lib |-> {}, clr |-> { File(coreCLRDll) }]
    /\ programPath = NullString
    /\ opts = OptionsStart(<<>>)
    /\ exitCode = NoValue
    /\ success = Unset
    /\ wmainResult = NoValue
    /\ hostEnvironment = [m_coreCLRModule |-> NULL,
                          m_coreCLRDirectoryPath |-> UninitializedPath,
                          m_tpaList |-> StringBufferNew,
                          m_CLRRuntimeHost |-> NULL]
    /\ loader = [attempts |-> <<>>, refs |-> [d \in LoadDirs |-> 0], pinned |-> {}]
    /\ managedExeModule = NULL
    /\ calls = <<>>
    /\ failedAt = "none"
    /\ hostedExit = NoValue
    /\ execArgv = NullString
    /\ scan = ScanIdle
    /\ paths = NoPaths
    /\ domain = NoDomain
    /\ gate = GateNotReached
    /\ tpaReturns = <<>>
    /\ printed = "nothing"

\* The characters of the file names handed to RemoveExtensionAndNi.
NameChars == { ".", "n", "i", "a" }

\* The file names: every string of NameChars of MaxNameLen characters at most.
FileNames == UNION { [1..n -> NameChars] : n \in 0..MaxNameLen }

\* A file name, in the buffer RemoveExtensionAndNi is called on.
InitRemove ==
    /\ ProgramIdle
    /\ pc = "RemoveExtensionAndNi"
    /\ fileName \in FileNames
    /\ fileNameAfter = NullString
    /\ stringBuffer = StringBufferNew
    /\ appended = <<>>

\* The call of RemoveExtensionAndNi, lines 209-227: the buffer after it.
CallRemoveExtensionAndNi ==
    /\ pc = "RemoveExtensionAndNi"
    /\ fileNameAfter' = RemoveExtensionAndNi(fileName)
    /\ pc' = "RemoveExtensionAndNi returned"
    /\ UNCHANGED <<envVars, recordVars, wmainVars, exitCode, success, wmainResult,
                   hostEnvironment, loader, managedExeModule, calls, failedAt,
                   hostedExit, execArgv, scan, fileName, stringBuffer, appended>>

NextRemove == CallRemoveExtensionAndNi

\* RemoveExtensionAndNi alone, over the file names.
SpecRemove == InitRemove /\ [][NextRemove]_vars

\* ------------------------------------------------------------------------
\* StringBuffer alone
\* ------------------------------------------------------------------------

\* The size of the buffers that hold a path (the Windows headers' value).
MAX_PATH == 260

\* The string of n characters c.
StringOf(n, c) == [i \in 1..n |-> c]

\* The strings appended: an assembly path of MAX_PATH characters, the ";"
\* that follows a path, the empty string, and the string that with whole
\* paths before it fills the first buffer to its last character.
AppendStrings ==
    { StringOf(MAX_PATH, "p"),
      <<";">>,
      <<>>,
      StringOf((m_defaultSize - 1) % MAX_PATH, "f") }

\* The number of strings appended so far that are shorter than MAX_PATH.
ShortAppends ==
    Cardinality({ i \in 1..Len(appended) : Len(appended[i]) < MAX_PATH })

\* A StringBuffer as its constructor leaves it.
InitBuffer ==
    /\ ProgramIdle
    /\ pc = "StringBuffer"
    /\ fileName = NullString
    /\ fileNameAfter = NullString
    /\ stringBuffer = StringBufferNew
    /\ appended = <<>>

\* One call of StringBuffer::Append, lines 42-57, with a string and its length.
AppendString ==
    /\ pc = "StringBuffer"
    /\ Len(appended) < MaxAppends
    /\ \E str \in AppendStrings :
        /\ Len(str) < MAX_PATH => ShortAppends < MaxShort
        /\ stringBuffer' = SB_Append(stringBuffer, str, Len(str))
        /\ appended' = appended \o <<str>>
    /\ UNCHANGED <<envVars, recordVars, wmainVars, pc, exitCode, success,
                   wmainResult, hostEnvironment, loader, managedExeModule, calls,
                   failedAt, hostedExit, execArgv, scan, fileName, fileNameAfter>>

NextBuffer == AppendString

\* A StringBuffer alone, under a sequence of Append calls.
SpecBuffer == InitBuffer /\ [][NextBuffer]_vars

\* ------------------------------------------------------------------------
\* The entries of the TPA list
\* ------------------------------------------------------------------------

\* The index of the first c in s, 0 when there is none.
IndexOf(s, c) ==
    IF \E i \in 1..Len(s) : s[i] = c
    THEN CHOOSE i \in 1..Len(s) : s[i] = c /\ \A j \in 1..(i-1) : s[j] # c
    ELSE 0

\* The paths of a list in which every path is followed by ";".
RECURSIVE SplitList(_)
SplitList(s) ==
    IF s = <<>>
    THEN <<>>
    ELSE LET k == IndexOf(s, ";")
         IN  IF k = 0
             THEN <<s>>
             ELSE <<SubSeq(s, 1, k - 1)>> \o SplitList(SubSeq(s, k + 1, Len(s)))

\* The paths on the list GetTpaList returns.
TpaEntries ==
    IF CStr(hostEnvironment.m_tpaList) = NullString
    THEN <<>>
    ELSE SplitList(CStr(hostEnvironment.m_tpaList))

\* The file name of a path: what follows its last backslash.
FileNameOf(path) == SubSeq(path, wcsrchr(path, "\\") + 1, Len(path))

\* The logical name of a file: its lower-cased name without the final
\* extension, and without a ".ni" that ends what is left of a longer name.
LogicalName(name) ==
    LET lower == ToLower(name)
        dots  == { i \in 1..Len(lower) : lower[i] = "." }
        base  == IF dots = {}
                 THEN lower
                 ELSE SubSeq(lower, 1, (CHOOSE i \in dots : \A j \in dots : j <= i) - 1)
    IN  IF EndsWith(base, <<".","n","i">>) /\ Len(base) > 3
        THEN SubSeq(base, 1, Len(base) - 3)
        ELSE base

\* The logical names on the list, in list order.
TpaLogicalNames ==
    [i \in DOMAIN TpaEntries |-> LogicalName(FileNameOf(TpaEntries[i]))]

\* The files GetTpaList enumerates: the entries of the scanned directories
\* that are no directories and match one of the four patterns.
ScannedFiles ==
    { e \in fs.lib \cup fs.clr :
        /\ ~e.isDirectory
        /\ \E i \in 1..countExtensions : MatchesPattern(e, rgTPAExtensions[i]) }

\* GetTpaList has returned to TryRun.
TpaListReturned == pc = "CreateAppDomainWithManager"

\* ------------------------------------------------------------------------
\* C1
\* ------------------------------------------------------------------------

\* The logical name of an entry as C1 defines it: the lower-cased file
\* name with the final extension removed and a trailing ".ni" then removed.
EntryLogicalName(name) ==
    LET lower == ToLower(name)
        dots  == { i \in 1..Len(lower) : lower[i] = "." }
        base  == IF dots = {}
                 THEN lower
                 ELSE SubSeq(lower, 1, (CHOOSE i \in dots : \A j \in dots : j <= i) - 1)
    IN  IF EndsWith(base, <<".","n","i">>)
        THEN SubSeq(base, 1, Len(base) - 3)
        ELSE base

\* C1: for every contents of the CORE_LIBRARIES and CoreCLR directories and
\* every enumeration order, the list GetTpaList returns has no two entries
\* whose logical names are equal.
C1_NoTwoEntriesShareLogicalName ==
    TpaListReturned =>
        \A i \in DOMAIN TpaEntries, j \in DOMAIN TpaEntries :
            i # j => EntryLogicalName(FileNameOf(TpaEntries[i]))
                        # EntryLogicalName(FileNameOf(TpaEntries[j]))

\* ------------------------------------------------------------------------
\* C3
\* ------------------------------------------------------------------------

\* C3: when GetTpaList returns, the logical name of every scanned file is
\* on the list exactly once (a file is skipped only for an entry of its own
\* logical name).
C3_EveryLogicalNameListedOnce ==
    TpaListReturned =>
        \A e \in ScannedFiles :
            Cardinality({ i \in DOMAIN TpaLogicalNames :
                            TpaLogicalNames[i] = LogicalName(e.cFileName) }) = 1

\* ------------------------------------------------------------------------
\* The runs of TryRun
\* ------------------------------------------------------------------------

\* The ICLRRuntimeHost2 calls of TryRun, in the order of its text.
HostCallOrder ==
    <<"SetStartupFlags", "Authenticate", "Start", "CreateAppDomainWithManager",
      "ExecuteAssembly", "UnloadAppDomain", "Stop", "Release">>

\* The host call was made.
Called(op) == \E i \in DOMAIN calls : calls[i].op = op

\* The host call was made and returned success.
Succeeded(op) == \E i \in DOMAIN calls : calls[i].op = op /\ calls[i].ok

\* wmain has returned.
Exited == pc = "exit"

\* The process is over: wmain has returned, or the process was ended.
Terminated == pc \in {"exit", "crashed"}

\* The stages of TryRun up to and including the ExecuteAssembly call.
StagesUpToExecute ==
    {"LoadManagedExe", "GetCLRRuntimeHost", "SetStartupFlags", "Authenticate",
     "Start", "CreateAppDomainWithManager", "ExecuteAssembly"}

\* ------------------------------------------------------------------------
\* C2
\* ------------------------------------------------------------------------

\* C2 as stated: once CreateAppDomainWithManager succeeded, every run that
\* returns has called UnloadAppDomain, Stop and Release, also when
\* ExecuteAssembly failed.
C2_TeardownOnEveryPath ==
    (Exited /\ Succeeded("CreateAppDomainWithManager")) =>
        Called("UnloadAppDomain") /\ Called("Stop") /\ Called("Release")

\* ------------------------------------------------------------------------
\* C4
\* ------------------------------------------------------------------------

\* C4: when ExecuteAssembly, UnloadAppDomain and Stop succeeded, wmain
\* returns the exit code ExecuteAssembly returned, converted to int, and
\* TryRun returned true.
C4_ExitCodeOfHostedProgram ==
    (Exited /\ Succeeded("ExecuteAssembly") /\ Succeeded("UnloadAppDomain")
            /\ Succeeded("Stop")) =>
        /\ success = "true"
        /\ hostedExit \in HostedExitCodes
        /\ wmainResult = ToInt32(hostedExit)

\* C4 witness: a successful run of a program whose exit code, 2^31 as a
\* DWORD, is the smallest int.
C4_Witness ==
    /\ Exited
    /\ success = "true"
    /\ hostedExit = Dword(WordRange \div 2, 0)
    /\ wmainResult = -2147483647 - 1

\* ------------------------------------------------------------------------
\* C5
\* ------------------------------------------------------------------------

\* C5: when ExecuteAssembly succeeded with exit code c and UnloadAppDomain
\* or Stop then failed, TryRun returns false and wmain returns c, not the
\* failure sentinel.
C5_ExitCodeKeptWhenTeardownFails ==
    (Exited /\ failedAt \in {"UnloadAppDomain", "Stop"}) =>
        /\ success = "false"
        /\ hostedExit \in HostedExitCodes
        /\ exitCode = hostedExit
        /\ wmainResult = ToInt32(hostedExit)
        /\ hostedExit # Sentinel => wmainResult # -1

\* C5 witness: a run whose program returned 40000 and whose unload failed.
C5_Witness ==
    /\ Exited
    /\ failedAt = "UnloadAppDomain"
    /\ hostedExit = Dword(0, 40000)
    /\ wmainResult = 40000

\* ------------------------------------------------------------------------
\* C6
\* ------------------------------------------------------------------------

\* C6: when TryRun failed at a stage up to and including ExecuteAssembly,
\* it returned false, exitCode is the sentinel, and wmain returns -1.
C6_SentinelWhenStageFails ==
    failedAt \in StagesUpToExecute =>
        /\ success = "false"
        /\ exitCode = Sentinel
        /\ hostedExit = NoValue
        /\ Exited => wmainResult = -1

\* C6 witness: a run that failed in ExecuteAssembly and returned -1.
C6_Witness ==
    /\ Exited
    /\ failedAt = "ExecuteAssembly"
    /\ wmainResult = -1

\* ------------------------------------------------------------------------
\* C7
\* ------------------------------------------------------------------------

\* C7: the host calls made so far are a prefix of SetStartupFlags,
\* Authenticate, Start, CreateAppDomainWithManager, ExecuteAssembly,
\* UnloadAppDomain, Stop, Release, and every call but the last one made
\* returned success.
C7_HostCallsInOrder ==
    /\ Len(calls) <= Len(HostCallOrder)
    /\ \A i \in DOMAIN calls :
          /\ calls[i].op = HostCallOrder[i]
          /\ i < Len(calls) => calls[i].ok

\* C7 witness: a run that returned after its fifth host call failed.
C7_Witness ==
    /\ Exited
    /\ Len(calls) = 5
    /\ ~calls[5].ok

\* ------------------------------------------------------------------------
\* C8
\* ------------------------------------------------------------------------

\* C8 as stated: a run fails on the target module only after Start
\* completed successfully.
C8_TargetLoadedAfterStart ==
    failedAt = "LoadManagedExe" =>
        /\ Succeeded("SetStartupFlags")
        /\ Succeeded("Authenticate")
        /\ Succeeded("Start")

\* C8 amended: the target module is loaded right after the HostEnvironment
\* is constructed and before the host interface is acquired: a run that
\* fails on the target module has acquired no host interface and made no
\* host call, and no host interface is acquired nor host call made without
\* the target module loaded.
C8_TargetLoadedBeforeHost ==
    /\ failedAt = "LoadManagedExe" =>
          /\ calls = <<>>
          /\ hostEnvironment.m_CLRRuntimeHost = NULL
          /\ managedExeModule = NULL
    /\ (calls # <<>> \/ hostEnvironment.m_CLRRuntimeHost # NULL) =>
          managedExeModule # NULL

\* C8 witness: CoreCLR.dll was loaded and pinned, the target module was not
\* found, and wmain returned without a host call.
C8_Witness ==
    /\ Exited
    /\ failedAt = "LoadManagedExe"
    /\ hostEnvironment.m_coreCLRModule # NULL
    /\ calls = <<>>

\* ------------------------------------------------------------------------
\* C9
\* ------------------------------------------------------------------------

\* C9: when the HostEnvironment ended without CoreCLR.dll, the process ends
\* with TryRun returning false, wmain returning -1, and no host call made.
C9_SentinelWhenRuntimeNotLoaded ==
    (Terminated /\ loader.attempts # <<>> /\ hostEnvironment.m_coreCLRModule = NULL) =>
        /\ Exited
        /\ success = "false"
        /\ wmainResult = -1
        /\ calls = <<>>

\* ------------------------------------------------------------------------
\* C10
\* ------------------------------------------------------------------------

\* C10: at most one load of CoreCLR.dll succeeds, and the loader is not
\* asked for the copy in the host directory after it loaded the copy in
\* CORE_ROOT.
C10_AtMostOneLoadSucceeds ==
    /\ Cardinality({ i \in DOMAIN loader.attempts : loader.attempts[i].loaded }) <= 1
    /\ \A i \in DOMAIN loader.attempts, j \in DOMAIN loader.attempts :
          (i < j /\ loader.attempts[j].directory = "hostdir") =>
              ~(loader.attempts[i].directory = "coreroot" /\ loader.attempts[i].loaded)

\* ------------------------------------------------------------------------
\* C11
\* ------------------------------------------------------------------------

\* The constructor of the HostEnvironment has returned.
RuntimeLocationOver ==
    /\ loader.attempts # <<>>
    /\ pc \notin {"wmain", "TryRun", "HostEnvironment", "HostDirectory"}

\* C11: when the constructor of the HostEnvironment ended without
\* CoreCLR.dll (m_coreCLRModule is null), no copy of CoreCLR.dll that was
\* loaded during the attempts is still loaded, the copy whose load
\* succeeded and whose pin failed included.
C11_NothingLoadedWhenNotLocated ==
    (RuntimeLocationOver /\ hostEnvironment.m_coreCLRModule = NULL) =>
        \A d \in LoadDirs : loader.refs[d] = 0

\* ------------------------------------------------------------------------
\* C12
\* ------------------------------------------------------------------------

\* The attempts on a directory, as indices of loader.attempts.
AttemptsOn(d) == { i \in DOMAIN loader.attempts : loader.attempts[i].directory = d }

\* TryLoadCoreCLR returned a handle at the attempt.
ReturnedHandle(attempt) == attempt.loaded /\ attempt.pinned

\* C12: once the constructor of the HostEnvironment has returned, CORE_ROOT
\* was tried first when it is set, and not at all when it is not; the host
\* directory was tried if and only if CORE_ROOT is not set or the attempt
\* on it returned no handle; and no more than two attempts were made, one
\* on each directory at most.
C12_CoreRootThenHostDirectory ==
    /\ Len(loader.attempts) <= 2
    /\ \A d \in LoadDirs : Cardinality(AttemptsOn(d)) <= 1
    /\ RuntimeLocationOver =>
          /\ (AttemptsOn("coreroot") # {}) <=> coreRootSet
          /\ coreRootSet => loader.attempts[1].directory = "coreroot"
          /\ (AttemptsOn("hostdir") # {}) <=>
                 (~coreRootSet \/ ~ReturnedHandle(loader.attempts[1]))

\* C12 witness: the copy in CORE_ROOT was loaded and its pin failed, so the
\* attempt returned no handle and the host directory was tried second.
C12_Witness ==
    /\ RuntimeLocationOver
    /\ coreRootSet
    /\ Len(loader.attempts) = 2
    /\ loader.attempts[1].loaded
    /\ ~ReturnedHandle(loader.attempts[1])
    /\ loader.attempts[2].directory = "hostdir"

\* ------------------------------------------------------------------------
\* C13
\* ------------------------------------------------------------------------

\* The endings of the names GetTpaList lists, in the order the directories
\* are probed for them.
ProbedEndings ==
    << <<".","n","i",".","d","l","l">>,
       <<".","d","l","l">>,
       <<".","n","i",".","e","x","e">>,
       <<".","e","x","e">> >>

\* The first ending of ProbedEndings a file name has, 0 when it has none.
FirstProbe(name) ==
    LET has == { i \in DOMAIN ProbedEndings : EndsWith(ToLower(name), ProbedEndings[i]) }
    IN  IF has = {} THEN 0 ELSE CHOOSE i \in has : \A j \in has : i <= j

\* An optimized-image file: its name ends in ".ni.dll" or ".ni.exe".
IsOptimizedImage(name) ==
    \/ EndsWith(ToLower(name), ProbedEndings[1])
    \/ EndsWith(ToLower(name), ProbedEndings[3])

\* The files of a scanned directory ("lib": CORE_LIBRARIES, "clr": the
\* directory of CoreCLR.dll) that the scan enumerates and that have the
\* logical name.
FilesNamed(d, name) ==
    { e \in ScannedFiles \cap (IF d = "lib" THEN fs.lib ELSE fs.clr) :
        LogicalName(e.cFileName) = name }

\* Those of them named name.ni.dll, name.dll, name.ni.exe or name.exe.
ProbedFilesNamed(d, name) ==
    { e \in FilesNamed(d, name) : FirstProbe(e.cFileName) # 0 }

\* The logical names of the files of the scanned directories.
LogicalNames == { LogicalName(e.cFileName) : e \in ScannedFiles }

\* The first directory, in scan order, that holds the logical name.
FirstDirectoryOf(name) ==
    IF coreLibrariesSet /\ FilesNamed("lib", name) # {} THEN "lib" ELSE "clr"

\* The directory holds name.ni.dll and name.dll, or name.ni.exe and name.exe.
HoldsPair(d, name) ==
    \E kind \in { <<"d","l","l">>, <<"e","x","e">> } :
        /\ \E e \in FilesNamed(d, name) :
               ToLower(e.cFileName) = name \o <<".","n","i",".">> \o kind
        /\ \E e \in FilesNamed(d, name) :
               ToLower(e.cFileName) = name \o <<".">> \o kind

\* The entries of the list that have the logical name, as indices.
EntriesNamed(name) == { i \in DOMAIN TpaEntries : TpaLogicalNames[i] = name }

Listed(d, e) ==
    \E i \in DOMAIN TpaEntries : TpaEntries[i] = TargetPath(d) \o ToLower(e.cFileName)

C14_CoreLibrariesRetained ==
    (TpaListReturned /\ coreLibrariesSet) =>
        \A name \in LogicalNames :
            (FilesNamed("lib", name) # {} /\ FilesNamed("clr", name) # {}) =>
                /\ EntriesNamed(name) # {}
                /\ \A i \in EntriesNamed(name) :
                       \E e \in FilesNamed("lib", name) :
                          TpaEntries[i] = CoreLibrariesPath \o ToLower(e.cFileName)

\* ------------------------------------------------------------------------
\* C15
\* ------------------------------------------------------------------------

\* After the call of GetTpaList the list has a buffer, the one the call
\* returned, so the test of line 291 sends every later call to the return
\* of that buffer without a scan; and no scan is under way.
ListBuilt ==
    tpaReturns # <<>> =>
        /\ Len(tpaReturns) = 1
        /\ tpaReturns[1].scanned
        /\ CStr(hostEnvironment.m_tpaList) # NullString
        /\ tpaReturns[1].list = CStr(hostEnvironment.m_tpaList)
        /\ scan = ScanIdle

\* Once GetTpaList has returned, no step scans or changes the list.
ListKept ==
    tpaReturns # <<>> =>
        /\ hostEnvironment'.m_tpaList = hostEnvironment.m_tpaList
        /\ tpaReturns' = tpaReturns
        /\ scan' = scan

C16_FourNamedProperties ==
    Called("CreateAppDomainWithManager") =>
        /\ domain.nProperties = 4
        /\ Len(domain.property_keys) = domain.nProperties
        /\ Len(domain.property_values) = domain.nProperties
        /\ domain.property_keys =
               << <<"TRUSTED_PLATFORM_ASSEMBLIES">>,
                  <<"APP_PATHS">>,
                  <<"APP_NI_PATHS">>,
                  <<"NATIVE_DLL_SEARCH_DIRECTORIES">> >>
        /\ domain.property_values =
               << tpaReturns[1].list,
                  AppPath,
                  AppPath \o <<";">> \o AppPath,
                  AppPath \o (IF coreLibrariesSet THEN <<";">> \o CoreLibraries ELSE <<>>)
                          \o <<";">> \o hostEnvironment.m_coreCLRDirectoryPath >>

\* ------------------------------------------------------------------------
\* C17
\* ------------------------------------------------------------------------

\* The spellings of the options, in lower case.
VerboseTokens == { <<"/","_","v">>, <<"-","_","v">> }

DebuggerTokens == { <<"/","_","d">>, <<"-","_","d">> }

HelpTokens == { <<"/","_","h">>, <<"-","_","h">> }

\* The token is one of the six option spellings, letter case ignored.
IsOptionToken(token) ==
    ToLower(token) \in VerboseTokens \cup DebuggerTokens \cup HelpTokens

\* The length of the leading run of option tokens after argv[0].
LeadingOptions ==
    LET args == Tail(argv)
    IN  CHOOSE k \in 0..Len(args) :
           /\ \A i \in 1..k : IsOptionToken(args[i])
           /\ k < Len(args) => ~IsOptionToken(args[k + 1])

\* A token of the given spellings is among the leading option tokens.
AmongLeadingOptions(spellings) ==
    \E i \in 1..LeadingOptions : ToLower(Tail(argv)[i]) \in spellings

\* No HostEnvironment was constructed: no attempt to load CoreCLR.dll, no
\* load of the target module, no host interface, no host call.
NothingConstructed ==
    /\ loader.attempts = <<>>
    /\ hostEnvironment.m_coreCLRModule = NULL
    /\ hostEnvironment.m_CLRRuntimeHost = NULL
    /\ managedExeModule = NULL
    /\ calls = <<>>

\* C17 as stated: with a help option among the leading option tokens, a
\* process that has returned from wmain printed the usage and returned -1,
\* and at no moment was a HostEnvironment constructed, CoreCLR.dll or the
\* target module loaded, or a host call made.
C17_HelpPrintsUsage ==
    AmongLeadingOptions(HelpTokens) =>
        /\ NothingConstructed
        /\ Exited => (printed = "showHelp" /\ wmainResult = -1)

\* C17 amended: with a help option among the leading option tokens, at no
\* moment is a HostEnvironment constructed, CoreCLR.dll or the target module
\* loaded, or a host call made; and when argv[0] ends in ".exe", the first
\* step of wmain prints the usage and returns -1; for any other argv[0]
\* with a '.', it prints the extension message and returns -1.
C17_HelpPrintsUsageForExe ==
    AmongLeadingOptions(HelpTokens) =>
        /\ NothingConstructed
        /\ (pc # "wmain" /\ EndsWith(argv[1], <<".","e","x","e">>)) =>
               (Exited /\ printed = "showHelp" /\ wmainResult = -1)
        /\ Exited => wmainResult = -1
        /\ (Exited /\ ~EndsWith(argv[1], <<".","e","x","e">>)) =>
               printed = "needs exe extension"

\* C17 witness: t.exe /_v /_H has printed the usage and returned -1.
C17_Witness ==
    /\ Exited
    /\ argv = << <<"t",".","e","x","e">>, <<"/","_","v">>, <<"/","_","H">> >>
    /\ printed = "showHelp"
    /\ wmainResult = -1
    /\ NothingConstructed

\* ------------------------------------------------------------------------
\* C18
\* ------------------------------------------------------------------------

\* The tokens after the leading run of option tokens.
ArgumentsAfterOptions ==
    SubSeq(Tail(argv), LeadingOptions + 1, Len(Tail(argv)))

\* C18: once the options are parsed, the flags set are those of the tokens
\* of the leading run of option tokens and of no later token, and the
\* argument vector handed to ExecuteAssembly is the command line from its
\* first token that is no option on, in order and unchanged.
C18_OnlyLeadingOptionsConsumed ==
    /\ (pc \notin {"wmain", "crashed"} /\ EndsWith(argv[1], <<".","e","x","e">>)) =>
          /\ opts.verbose <=> AmongLeadingOptions(VerboseTokens)
          /\ opts.waitForDebugger <=> AmongLeadingOptions(DebuggerTokens)
          /\ opts.helpRequested <=> AmongLeadingOptions(HelpTokens)
          /\ opts.newArgv = ArgumentsAfterOptions
    /\ Called("ExecuteAssembly") => execArgv = ArgumentsAfterOptions

\* C18 witness: t.exe x -_D: ExecuteAssembly was handed x -_D, and the
\* wait for the debugger is not set.
C18_Witness ==
    /\ Called("ExecuteAssembly")
    /\ argv = << <<"t",".","e","x","e">>, <<"x">>, <<"-","_","D">> >>
    /\ execArgv = << <<"x">>, <<"-","_","D">> >>
    /\ ~opts.waitForDebugger
    /\ gate.state = "passed"

\* ------------------------------------------------------------------------
\* C19
\* ------------------------------------------------------------------------

\* Where the wait for the debugger stands with respect to the host calls.
GateInPlace ==
    /\ gate.state # "not reached" => Succeeded("CreateAppDomainWithManager")
    /\ Called("ExecuteAssembly") => gate.state \in {"passed", "resumed"}
    /\ gate.state = "blocked" <=> pc = "getchar"
    /\ gate.state \in {"blocked", "resumed"} =>
          (opts.waitForDebugger /\ ~gate.IsDebuggerPresent)

\* What a step of the wait for the debugger does: it leads to getchar or to
\* ExecuteAssembly, from getchar to ExecuteAssembly only, and changes
\* nothing the later host calls and the result are made from.
GateStep ==
    pc \in {"DebugGate", "getchar"} =>
        /\ pc' \in {"getchar", "ExecuteAssembly"}
        /\ pc = "getchar" => pc' = "ExecuteAssembly"
        /\ UNCHANGED <<envVars, unitVars, wmainVars, exitCode, success, wmainResult,
                       hostEnvironment, loader, managedExeModule, calls, failedAt,
                       hostedExit, execArgv, scan, paths, domain, tpaReturns, printed>>

\* C19: the wait for the debugger runs only after CreateAppDomainWithManager
\* succeeded and before ExecuteAssembly is called; it blocks only when /_d
\* was given and IsDebuggerPresent returned false; and whether it blocked
\* or not, and whether the debugger attached or not, ExecuteAssembly is
\* reached next with the same state, so the later host calls and the
\* result are the same.
C19_DebuggerGate == []GateInPlace /\ [][GateStep]_vars

\* C19 witness: the gate blocked, a key was pressed with no debugger
\* attached, and the run went on to succeed.
C19_Witness ==
    /\ Exited
    /\ gate.state = "resumed"
    /\ ~gate.attached
    /\ Succeeded("ExecuteAssembly")
    /\ success = "true"

\* ------------------------------------------------------------------------
\* C20
\* ------------------------------------------------------------------------

\* The number of calls of the operation.
CallsOf(op) == Cardinality({ i \in DOMAIN calls : calls[i].op = op })

\* The number of host interfaces the run acquired.
Acquisitions == IF hostEnvironment.m_CLRRuntimeHost # NULL THEN 1 ELSE 0

\* C20: when TryRun has returned, on a failure path as on the successful
\* one, Release was called as many times as the host interface was
\* acquired, and Stop was called when Start had succeeded.
C20_InterfaceReleasedRuntimeStopped ==
    pc \in {"return", "exit"} =>
        /\ CallsOf("Release") = Acquisitions
        /\ Succeeded("Start") => Called("Stop")

\* ------------------------------------------------------------------------
\* C21
\* ------------------------------------------------------------------------

\* What is left of a name when the text from its last '.' on is removed.
WithoutExtension(name) ==
    LET dots == { i \in 1..Len(name) : name[i] = "." }
    IN  IF dots = {}
        THEN name
        ELSE SubSeq(name, 1, (CHOOSE i \in dots : \A j \in dots : j <= i) - 1)

\* C21: RemoveExtensionAndNi removes the text from the last '.' on, and then
\* a trailing ".ni" only when what is left is longer than three characters:
\* a remainder of three characters or fewer, ".ni" itself included, is the
\* result as it is, and a name with a non-empty base has a non-empty result.
C21_NiCutOnlyFromLongerNames ==
    pc = "RemoveExtensionAndNi returned" =>
        LET rest == WithoutExtension(fileName)
        IN  /\ fileNameAfter =
                   IF Len(rest) > 3 /\ EndsWith(rest, <<".","n","i">>)
                   THEN SubSeq(rest, 1, Len(rest) - 3)
                   ELSE rest
            /\ Len(rest) <= 3 => fileNameAfter = rest
            /\ rest # <<>> => fileNameAfter # <<>>

\* C21 witness: what is left of ".ni.a" is ".ni", and it is the result.
C21_Witness ==
    /\ pc = "RemoveExtensionAndNi returned"
    /\ fileName = <<".","n","i",".","a">>
    /\ fileNameAfter = <<".","n","i">>

\* ------------------------------------------------------------------------
\* C22
\* ------------------------------------------------------------------------

RECURSIVE Concatenation(_)
\* The strings of a sequence, one after the other in the order of the sequence.
Concatenation(strs) ==
    IF strs = <<>> THEN <<>> ELSE strs[1] \o Concatenation(Tail(strs))

\* After one Append call or more, each of MAX_PATH characters at most, the
\* length and one terminator fit the capacity, and the content is the
\* strings appended, in the order of the calls.
BufferHoldsAppended ==
    (/\ appended # <<>>
     /\ \A i \in 1..Len(appended) : Len(appended[i]) <= MAX_PATH)
        => /\ stringBuffer.m_buffer # NullString
           /\ stringBuffer.m_length + 1 <= stringBuffer.m_capacity
           /\ stringBuffer.m_length = Len(stringBuffer.m_buffer)
           /\ stringBuffer.m_buffer = Concatenation(appended)

\* A call only adds at the end, and the capacity, m_defaultSize at first,
\* changes by doubling only, the content stored before the call kept.
AppendOnlyStep ==
    /\ stringBuffer.m_buffer = NullString =>
           stringBuffer'.m_capacity = m_defaultSize
    /\ stringBuffer.m_buffer # NullString =>
           /\ stringBuffer'.m_capacity \in
                  { stringBuffer.m_capacity, 2 * stringBuffer.m_capacity }
           /\ stringBuffer'.m_length >= stringBuffer.m_length
           /\ SubSeq(stringBuffer'.m_buffer, 1, stringBuffer.m_length)
                  = stringBuffer.m_buffer

\* C22: a StringBuffer is append-only and never overflows: after Append
\* calls of MAX_PATH characters at most each, m_length + 1 <= m_capacity, the
\* content is the concatenation of the appended strings in call order, and
\* a growth step, a doubling of the capacity from 4096, keeps the content
\* stored before it.
C22_AppendOnlyNeverOverflows ==
    []BufferHoldsAppended /\ [][AppendOnlyStep]_vars

\* C22 witness: the capacity has doubled once, the buffer holds more than
\* the first capacity, and the content is every string appended.
C22_Witness ==
    /\ pc = "StringBuffer"
    /\ stringBuffer.m_capacity = 2 * m_defaultSize
    /\ stringBuffer.m_length + 1 > m_defaultSize
    /\ stringBuffer.m_buffer = Concatenation(appended)
    /\ \E i \in 1..Len(appended) : appended[i] = <<";">>

====
